---- MODULE Spec2Model ----
(***************************************************************************)
(* HashedFC (src/hashedFC.py): a linear layer whose output rows are hashed *)
(* into LSH buckets, collapsed to one representative per bucket            *)
(* (select_representatives) and sliced down to the representatives         *)
(* (prune_weights).                                                        *)
(*                                                                         *)
(* Tensors are functions over 0-based index ranges.  Weight values are     *)
(* exact rationals <<numerator, denominator>> in lowest terms, in units of *)
(* initrange (0.05); the activation-weighted mean is an exact quotient.    *)
(* lsh.py and simHash.py are not part of the sources at hand: SimHash      *)
(* signatures and the bucket table are modelled from the specification.    *)
(***************************************************************************)
EXTENDS Integers, Sequences, FiniteSets, TLC

\* ---- bounds of the model ------------------------------------------------
MaxRows == 3      \* largest output_dim at construction
MaxCols == 2      \* largest input_dim at construction
MaxReps == 2      \* longest index list handed to prune_weights directly
MaxK == 1         \* largest number of hash bits K
MaxAct == 1       \* cap of every activation counter
MaxBatch == 1     \* largest batch given to accumulate_metrics
MaxCalls == 3     \* calls made on one layer
MaxPrunes == 1    \* of which prune_weights / update_weights
DrawBits == 3     \* sign patterns a random draw of weights is sampled from

\* ---- rationals ------------------------------------------------------------
Abs(x) == IF x < 0 THEN -x ELSE x

RECURSIVE Gcd(_, _)
Gcd(a, b) == IF b = 0 THEN a ELSE Gcd(b, a % b)

Norm(n, d) == LET g == Gcd(Abs(n), d) IN <<n \div g, d \div g>>

FromInt(k) == <<k, 1>>

Zero == FromInt(0)

RAdd(x, y) == Norm(x[1] * y[2] + y[1] * x[2], x[2] * y[2])

RMul(x, y) == Norm(x[1] * y[1], x[2] * y[2])

RDiv(x, y) ==
    IF y[1] > 0 THEN Norm(x[1] * y[2], x[2] * y[1])
    ELSE Norm(-(x[1] * y[2]), x[2] * (-y[1]))

RECURSIVE RSum(_)
RSum(s) == IF s = <<>> THEN Zero ELSE RAdd(s[1], RSum(Tail(s)))

RECURSIVE ISum(_)
ISum(s) == IF s = <<>> THEN 0 ELSE s[1] + ISum(Tail(s))

\* ---- tensors --------------------------------------------------------------
Rows(M) == Cardinality(DOMAIN M)

Cols(M) == IF Rows(M) = 0 THEN 0 ELSE Cardinality(DOMAIN M[0])

Min(a, b) == IF a < b THEN a ELSE b

\* Values weight.data.uniform_(-initrange, initrange) can draw, in units of
\* initrange.
\* initrange, sampled at its two ends: the sign of cell (i, j) is bit
\* (i * c + j) mod DrawBits of the pattern drawn.
RECURSIVE Pow2(_)
Pow2(n) == IF n = 0 THEN 1 ELSE 2 * Pow2(n - 1)

Bit(s, k) == (s \div Pow2(k)) % 2 = 1

UniformWeights(r, c) ==
    {[i \in 0 .. r - 1 |->
        [j \in 0 .. c - 1 |->
            FromInt(IF Bit(s, (i * c + j) % DrawBits) THEN 1 ELSE -1)]] :
     s \in 0 .. Pow2(DrawBits) - 1}

ZeroBias(r) == [i \in 0 .. r - 1 |-> Zero]

\* init_weights(weight, bias): weight.data.uniform_(...) overwrites every
\* weight cell with a fresh draw, bias.data.fill_(0) zeroes the bias.
init_weights(weight_, bias_, draw) ==
    [weight |-> [i \in DOMAIN weight_ |-> [j \in DOMAIN weight_[i] |-> draw[i][j]]],
     bias |-> [i \in DOMAIN bias_ |-> Zero]]

VARIABLES
    weight,                  \* self.params.weight
    bias,                    \* self.params.bias
    num_class,               \* self.num_class
    D,                       \* self.D
    K,                       \* self.K
    hash_weight,             \* self.hash_weight
    running_activations,     \* self.running_activations
    lsh,                     \* self.lsh
    dense,                   \* whether the LSH table lists empty buckets
    representative_indices,  \* indices returned by / passed to the last call
    calls,                   \* calls made so far
    prunes,                  \* prune_weights / update_weights calls so far
    op,                      \* the last call
    outcome                  \* "ok", or "error" when the last call raised

vars == <<weight, bias, num_class, D, K, hash_weight, running_activations,
          lsh, dense, representative_indices, calls, prunes, op, outcome>>

\* ---- SimHash and the LSH table (lsh.py, simHash.py) -----------------------
\* One projection set: K vectors of length dim, entries drawn from {-1, 1}.
ProjSets(k, dim) == [1 .. k -> [0 .. dim - 1 -> {-1, 1}]]

Dot(v, p) == RSum([n \in 1 .. Rows(v) |-> RMul(v[n - 1], FromInt(p[n - 1]))])

\* signature(v): bit j is 1 iff dot(v, projection[j]) > 0; the K bits make
\* one integer code.
Signature(v, proj) ==
    ISum([j \in 1 .. Len(proj) |->
            IF Dot(v, proj[j])[1] > 0 THEN Pow2(j - 1) ELSE 0])

\* torch.cat((weight, bias.unsqueeze(1)), dim=1): the bias is the last
\* component of every row.
weight_tolsh(weight_, bias_) ==
    [i \in DOMAIN weight_ |->
        [j \in 0 .. Cols(weight_) |->
            IF j < Cols(weight_) THEN weight_[i][j] ELSE bias_[i]]]

\* insert_multi then lsh.representatives(): the bucket of every signature code
\* in ascending code order, the members of a bucket in insertion (row)
\* order.  A dense table lists the codes no row hashed to as empty buckets.
Bucket(rows, n, proj, code) ==
    SelectSeq([m \in 1 .. n |-> m - 1],
              LAMBDA i : Signature(rows[i], proj) = code)

lsh_representatives(rows, n, proj, listEmpty) ==
    SelectSeq([c \in 1 .. Pow2(Len(proj)) |-> Bucket(rows, n, proj, c - 1)],
              LAMBDA b : listEmpty \/ b # <<>>)

NoLSH == [built |-> FALSE, tables |-> <<>>]

NoHashWeight == [set |-> FALSE, w |-> <<>>]

\* ---- select_representatives -----------------------------------------------
\* torch.argmax: the first maximal entry.
argmax(s) ==
    CHOOSE i \in 1 .. Len(s) :
        /\ \A j \in 1 .. Len(s) : s[j] <= s[i]
        /\ \A j \in 1 .. i - 1 : s[j] < s[i]

Set2(M, r, c, v) == [M EXCEPT ![r] = [M[r] EXCEPT ![c] = v]]

InRange(M, r, c) == r \in DOMAIN M /\ c \in DOMAIN M[r]

\* One iteration of the loop over the buckets.  st carries new_weights,
\* representative_indices and whether an index error has been raised.
ProcessBucket(st, bucket, W, ra, nc, d) ==
    IF ~st.ok THEN st
    ELSE IF Len(bucket) = 0 THEN
        [st EXCEPT !.reps = Append(@, -1)]
    ELSE IF Len(bucket) = 1 THEN
        LET single_idx == bucket[1]
            row == single_idx \div nc
            col == single_idx % d
        IN  IF ~InRange(W, row, col) THEN [st EXCEPT !.ok = FALSE]
            ELSE [st EXCEPT !.reps = Append(@, single_idx),
                            !.new_weights = Set2(@, row, col, W[row][col])]
    ELSE
        LET rows == [n \in 1 .. Len(bucket) |-> bucket[n] \div nc]
            cols == [n \in 1 .. Len(bucket) |-> bucket[n] % d]
            idxOK == \A n \in 1 .. Len(bucket) :
                        InRange(ra, rows[n], cols[n]) /\ InRange(W, rows[n], cols[n])
        IN  IF ~idxOK THEN [st EXCEPT !.ok = FALSE]
            ELSE
            LET bucket_activations == [n \in 1 .. Len(bucket) |-> ra[rows[n]][cols[n]]]
                bucket_weights == [n \in 1 .. Len(bucket) |-> W[rows[n]][cols[n]]]
                weighted_sum ==
                    RSum([n \in 1 .. Len(bucket) |->
                            RMul(bucket_weights[n], FromInt(bucket_activations[n]))])
                activation_sum == ISum(bucket_activations)
                representative_weight ==
                    IF activation_sum = 0 THEN Zero
                    ELSE RDiv(weighted_sum, FromInt(activation_sum))
                argmax_idx == argmax(bucket_activations)
                most_activated_row == rows[argmax_idx]
                most_activated_col == cols[argmax_idx]
            IN  [st EXCEPT
                    !.new_weights = Set2(@, most_activated_row, most_activated_col,
                                         representative_weight),
                    !.reps = Append(@, most_activated_row * nc + most_activated_col)]

RECURSIVE SelectLoop(_, _, _, _, _, _)
SelectLoop(st, buckets, W, ra, nc, d) ==
    IF buckets = <<>> THEN st
    ELSE SelectLoop(ProcessBucket(st, Head(buckets), W, ra, nc, d),
                    Tail(buckets), W, ra, nc, d)

\* initializeLSH uses self.hash_weight when it is set; rebuildLSH always
\* builds SimHash(D + 1, K, L) with fresh random projections.
initializeLSH(hw, fresh) == IF hw.set THEN hw.w ELSE fresh

rebuildLSH(hw, fresh) == fresh

\* The whole of select_representatives on a layer state s (a record of the
\* fields), with the random projections drawn and whether the table lists
\* empty buckets.  Result: ok, the weight data installed, the indices returned, self.lsh.
select_representatives(s, fresh, listEmpty) ==
    LET proj == IF s.lsh.built THEN rebuildLSH(s.hash_weight, fresh)
                ELSE initializeLSH(s.hash_weight, fresh)
        projOK == Rows(proj[1]) = s.D + 1
        rowsOK == Cols(s.weight) = s.D /\ Rows(s.weight) = s.num_class
    IN  IF ~projOK THEN
            \* malformed projection set: configuration error
            [ok |-> FALSE, weight |-> s.weight, reps |-> <<>>, lsh |-> s.lsh]
        ELSE IF ~rowsOK THEN
            \* row length differs from the generator's dimension
            [ok |-> FALSE, weight |-> s.weight, reps |-> <<>>,
             lsh |-> [built |-> TRUE, tables |-> <<>>]]
        ELSE
            LET bucket_indices ==
                    lsh_representatives(weight_tolsh(s.weight, s.bias), s.num_class,
                                        proj, listEmpty)
                st == SelectLoop([ok |-> TRUE, new_weights |-> s.weight, reps |-> <<>>],
                                 bucket_indices, s.weight, s.running_activations,
                                 s.num_class, s.D)
            IN  [ok |-> st.ok,
                 weight |-> IF st.ok THEN st.new_weights ELSE s.weight,
                 reps |-> IF st.ok THEN st.reps ELSE <<>>,
                 lsh |-> [built |-> TRUE, tables |-> bucket_indices]]

\* ---- prune_weights --------------------------------------------------------
\* Tensor indexing with a negative index counts from the end.
PyIndex(k, n) == IF k < 0 THEN k + n ELSE k

\* The whole of prune_weights(representatives, input_dim) on weight/bias
\* data W, B; draw is what init_weights draws for the new layer.
\* Result: ok, and the fields as the call leaves them.
prune_weights(W, B, representatives, input_dim, draw) ==
    LET n == Len(representatives)
        pc == Min(input_dim, Cols(W))
        pruned_weights ==
            [i \in 0 .. n - 1 |->
                [j \in 0 .. pc - 1 |-> W[PyIndex(representatives[i + 1], Rows(W))][j]]]
        pruned_biases ==
            [i \in 0 .. n - 1 |-> B[PyIndex(representatives[i + 1], Rows(W))]]
        \* copy_ broadcasts a single column, and raises on any other mismatch
        fits == pc = input_dim \/ pc = 1
        copied ==
            [i \in 0 .. n - 1 |->
                [j \in 0 .. input_dim - 1 |->
                    pruned_weights[i][IF pc = input_dim THEN j ELSE 0]]]
        new_layer == init_weights(copied, pruned_biases, draw)
    IN  IF fits
        THEN [ok |-> TRUE, weight |-> new_layer.weight, bias |-> new_layer.bias,
              num_class |-> n, D |-> input_dim]
        ELSE [ok |-> FALSE, weight |-> W, bias |-> B,
              num_class |-> n, D |-> input_dim]

\* ---- accumulate_metrics ---------------------------------------------------
\* activation_summed: per column, the number of strictly positive entries.
activation_summed(activations) ==
    [c \in DOMAIN activations[0] |->
        Cardinality({b \in DOMAIN activations : activations[b][c] > 0})]

\* running_activations += activation_summed.unsqueeze(0): the [1, n] operand
\* broadcasts over the rows when n is the counter's column count or 1.
Broadcasts(ra, summed) == Rows(summed) = Cols(ra) \/ Rows(summed) = 1

\* The counters assigned the batch's counts instead of raised by them.
accumulate_metrics_assign(ra, activations) ==
    LET summed == activation_summed(activations)
    IN  [r \in DOMAIN ra |->
            [c \in DOMAIN ra[r] |-> summed[IF Rows(summed) = 1 THEN 0 ELSE c]]]

accumulate_metrics(ra, activations) ==
    LET summed == activation_summed(activations)
    IN  [r \in DOMAIN ra |->
            [c \in DOMAIN ra[r] |->
                ra[r][c] + summed[IF Rows(summed) = 1 THEN 0 ELSE c]]]

\* ---- the layer as a state machine -----------------------------------------
Self ==
    [weight |-> weight, bias |-> bias, num_class |-> num_class, D |-> D,
     hash_weight |-> hash_weight, running_activations |-> running_activations,
     lsh |-> lsh]

ActVals == {-1, 0, 1}

\* The projection set a caller may install as hash_weight: all ones.
HashWeights(k, dim) == {p \in ProjSets(k, dim) : \A j \in 1 .. k : \A n \in 0 .. dim - 1 : p[j][n] = 1}

\* HashedFC(input_dim, output_dim, K), hash_weight left None or set by the
\* caller to a projection set of the layer's dimensions.
Init ==
    \E input_dim \in 1 .. MaxCols, output_dim \in 1 .. MaxRows, k \in 1 .. MaxK :
        /\ \E draw \in UniformWeights(output_dim, input_dim) :
              \E params \in {init_weights(draw, ZeroBias(output_dim), draw)} :
                  weight = params.weight /\ bias = params.bias
        /\ K = k
        /\ D = input_dim
        /\ num_class = output_dim
        /\ hash_weight \in
              {NoHashWeight} \cup
              {[set |-> TRUE, w |-> p] : p \in HashWeights(k, input_dim + 1)}
        /\ running_activations =
              [r \in 0 .. input_dim - 1 |-> [c \in 0 .. output_dim - 1 |-> 0]]
        /\ lsh = NoLSH
        /\ dense \in BOOLEAN
        /\ representative_indices = <<>>
        /\ calls = 0
        /\ prunes = 0
        /\ op = "init"
        /\ outcome = "ok"

\* accumulate_metrics(activations) on a batch of the layer's activations.
AccumulateMetrics ==
    /\ calls < MaxCalls
    /\ \E batch \in 1 .. MaxBatch :
        \E activations \in [0 .. batch - 1 -> [0 .. Rows(weight) - 1 -> ActVals]] :
          IF Broadcasts(running_activations, activation_summed(activations))
          THEN /\ running_activations' =
                     accumulate_metrics(running_activations, activations)
               /\ \A r \in DOMAIN running_activations' :
                     \A c \in DOMAIN running_activations'[r] :
                         running_activations'[r][c] <= MaxAct
               /\ outcome' = "ok"
          ELSE /\ running_activations' = running_activations
               /\ outcome' = "error"
    /\ op' = "accumulate_metrics"
    /\ calls' = calls + 1
    /\ UNCHANGED <<weight, bias, num_class, D, K, hash_weight, lsh, dense,
                   representative_indices, prunes>>

\* select_representatives() called on its own.
SelectRepresentatives ==
    /\ calls < MaxCalls
    /\ \E fresh \in ProjSets(K, D + 1) :
        \E r \in {select_representatives(Self, fresh, dense)} :
          /\ weight' = r.weight
          /\ lsh' = r.lsh
          /\ representative_indices' = r.reps
          /\ outcome' = IF r.ok THEN "ok" ELSE "error"
    /\ op' = "select_representatives"
    /\ calls' = calls + 1
    /\ UNCHANGED <<bias, num_class, D, K, hash_weight, running_activations, dense,
                   prunes>>

\* prune_weights(representatives, input_dim) called on its own.
PruneWeights ==
    /\ calls < MaxCalls
    /\ prunes < MaxPrunes
    /\ \E n \in 1 .. MaxReps, input_dim \in 1 .. MaxCols + 1 :
        \E representatives \in [1 .. n -> -1 .. Rows(weight) - 1] :
          \E draw \in UniformWeights(n, input_dim) :
            \E r \in {prune_weights(weight, bias, representatives, input_dim, draw)} :
              /\ weight' = r.weight
              /\ bias' = r.bias
              /\ num_class' = r.num_class
              /\ D' = r.D
              /\ representative_indices' = representatives
              /\ outcome' = IF r.ok THEN "ok" ELSE "error"
    /\ op' = "prune_weights"
    /\ calls' = calls + 1
    /\ prunes' = prunes + 1
    /\ UNCHANGED <<K, hash_weight, running_activations, lsh, dense>>

\* update_weights(input_dim): select_representatives, then prune_weights on
\* what it returned.
UpdateWeights ==
    /\ calls < MaxCalls
    /\ prunes < MaxPrunes
    /\ \E input_dim \in 1 .. MaxCols + 1, fresh \in ProjSets(K, D + 1) :
        \E s \in {select_representatives(Self, fresh, dense)} :
          /\ lsh' = s.lsh
          /\ representative_indices' = s.reps
          /\ IF ~s.ok
             THEN /\ weight' = s.weight
                  /\ outcome' = "error"
                  /\ UNCHANGED <<bias, num_class, D>>
             ELSE \E draw \in UniformWeights(Len(s.reps), input_dim) :
                    \E r \in {prune_weights(s.weight, bias, s.reps, input_dim, draw)} :
                      /\ weight' = r.weight
                      /\ bias' = r.bias
                      /\ num_class' = r.num_class
                      /\ D' = r.D
                      /\ outcome' = IF r.ok THEN "ok" ELSE "error"
    /\ op' = "update_weights"
    /\ calls' = calls + 1
    /\ prunes' = prunes + 1
    /\ UNCHANGED <<K, hash_weight, running_activations, dense>>

Next ==
    \/ AccumulateMetrics
    \/ SelectRepresentatives
    \/ PruneWeights
    \/ UpdateWeights

Spec == Init /\ [][Next]_vars

\* ---- properties -----------------------------------------------------------
Selected == op = "select_representatives" /\ outcome = "ok"

Pruned == op \in {"prune_weights", "update_weights"} /\ outcome = "ok"

NValid(reps) == Cardinality({i \in 1 .. Len(reps) : reps[i] # -1})

\* The cell select_representatives addresses for flat index m.
CellRow(m, nc) == m \div nc

CellCol(m, d) == m % d

Members(b) == {b[n] : n \in 1 .. Len(b)}

\* Activation-weighted mean of a bucket over weights W and counters ra,
\* 0 when the activations sum to 0.
MeanOf(b, W, ra, nc, d) ==
    LET a == [n \in 1 .. Len(b) |-> ra[CellRow(b[n], nc)][CellCol(b[n], d)]]
        w == [n \in 1 .. Len(b) |-> W[CellRow(b[n], nc)][CellCol(b[n], d)]]
    IN  IF ISum(a) = 0 THEN Zero
        ELSE RDiv(RSum([n \in 1 .. Len(b) |-> RMul(w[n], FromInt(a[n]))]),
                  FromInt(ISum(a)))

\* The member of a multi-member bucket with the maximal activation count,
\* the first one in iteration order on a tie.
FirstMaxMember(b, ra, nc, d) ==
    b[argmax([n \in 1 .. Len(b) |-> ra[CellRow(b[n], nc)][CellCol(b[n], d)]])]

\* C1 (shrink law): after prune_weights on an index list with N non-sentinel
\* entries, the weight matrix and the bias have exactly N rows and
\* num_class = N.
C1_ShrinkLaw ==
    Pruned =>
        /\ Rows(weight) = NValid(representative_indices)
        /\ Rows(bias) = NValid(representative_indices)
        /\ num_class = NValid(representative_indices)

\* C2: after select_representatives, the index stored for a non-empty bucket
\* is a member of that bucket: the sole member of a singleton, and otherwise
\* the first member with the maximal activation count.
C2_RepresentativeIsArgmaxMember ==
    Selected =>
        \A i \in 1 .. Len(lsh.tables) :
            LET b == lsh.tables[i]
            IN  /\ Len(b) = 1 => representative_indices[i] = b[1]
                /\ Len(b) >= 2 =>
                      /\ representative_indices[i] \in Members(b)
                      /\ representative_indices[i] =
                            FirstMaxMember(b, running_activations, num_class, D)

\* C3: a select_representatives pass processes every bucket, and leaves at
\* the representative of every multi-member bucket the activation-weighted
\* mean of the members' weights as they were before the pass (0 when the
\* activations sum to 0).
C3_WeightedMeanInstalled ==
    [][ (op' = "select_representatives" /\ outcome' = "ok") =>
          /\ Len(representative_indices') = Len(lsh'.tables)
          /\ \A i \in 1 .. Len(lsh'.tables) :
                LET b == lsh'.tables[i]
                    rep == representative_indices'[i]
                IN  Len(b) >= 2 =>
                        weight'[CellRow(rep, num_class)][CellCol(rep, D)] =
                            MeanOf(b, weight, running_activations, num_class, D)
      ]_vars

\* C4: prune_weights(representatives, input_dim) leaves in row i of the new
\* weight matrix the row representatives[i] of the matrix it was called on,
\* and in new bias i the old bias representatives[i].
C4_PrunedRowsAreCopies ==
    [][ (op' = "prune_weights" /\ outcome' = "ok") =>
          \A i \in DOMAIN weight' :
              LET k == PyIndex(representative_indices'[i + 1], Rows(weight))
              IN  /\ bias'[i] = bias[k]
                  /\ \A j \in DOMAIN weight'[i] \cap DOMAIN weight[k] :
                        weight'[i][j] = weight[k][j]
      ]_vars

\* C5 (determinism): on a layer with hash_weight set, every
\* select_representatives pass enumerates the buckets that hash_weight gives
\* for the weights and bias the pass starts from.
C5_FixedProjectionsDeterministic ==
    [][ ( /\ op' = "select_representatives" /\ outcome' = "ok"
          /\ hash_weight.set
          /\ Rows(hash_weight.w[1]) = D + 1 ) =>
          lsh'.tables =
              lsh_representatives(weight_tolsh(weight, bias), num_class,
                                  hash_weight.w, dense)
      ]_vars

\* C6: an update_weights call that raises leaves the weight values, the
\* bias, num_class and D as they were before the call.
C6_UpdateAllOrNothing ==
    [][ (op' = "update_weights" /\ outcome' = "error") =>
          /\ weight' = weight
          /\ bias' = bias
          /\ num_class' = num_class
          /\ D' = D
      ]_vars

\* C7: the activation counter always holds one counter per cell of the weight
\* matrix (its row and column counts are the matrix's, in the matrix's layout
\* or transposed), and accumulate_metrics on the layer's activations never
\* raises.
C7_CounterMatchesWeightShape ==
    /\ \/ /\ Rows(running_activations) = Rows(weight)
          /\ Cols(running_activations) = Cols(weight)
       \/ /\ Rows(running_activations) = Cols(weight)
          /\ Cols(running_activations) = Rows(weight)
    /\ op = "accumulate_metrics" => outcome = "ok"

\* C8 (frame): select_representatives leaves the shape of the weight matrix,
\* the bias, the counters, num_class and D unchanged, and changes no weight
\* but those of the representatives of multi-member buckets: the weights of
\* singleton members and of the other members of multi-member buckets keep
\* their value.  The weights of index m are read either way: as the cell the
\* pass addresses for m, or as row m of the matrix.
C8_SelectFrame ==
    [][ (op' = "select_representatives" /\ outcome' = "ok") =>
          LET tables == lsh'.tables
              reps == representative_indices'
              multi == {n \in 1 .. Len(tables) : Len(tables[n]) >= 2}
              kept ==
                  UNION {{m \in Members(tables[i]) :
                            Len(tables[i]) = 1 \/ m # reps[i]} :
                         i \in 1 .. Len(tables)}
              Cell(m) == <<CellRow(m, num_class), CellCol(m, D)>>
              changed ==
                  {<<r, c>> \in (DOMAIN weight) \X (DOMAIN weight[0]) :
                      weight'[r][c] # weight[r][c]}
              cellFrame ==
                  /\ changed \subseteq {Cell(reps[i]) : i \in multi}
                  /\ changed \cap {Cell(m) : m \in kept} = {}
              rowFrame ==
                  /\ {rc[1] : rc \in changed} \subseteq {reps[i] : i \in multi}
                  /\ {rc[1] : rc \in changed} \cap kept = {}
          IN  /\ DOMAIN weight' = DOMAIN weight
              /\ \A r \in DOMAIN weight : DOMAIN weight'[r] = DOMAIN weight[r]
              /\ bias' = bias
              /\ running_activations' = running_activations
              /\ num_class' = num_class
              /\ D' = D
              /\ cellFrame \/ rowFrame
      ]_vars

\* C9: every activation counter is non-negative and no call lowers one.
C9_CountersMonotone ==
    /\ [](\A r \in DOMAIN running_activations :
            \A c \in DOMAIN running_activations[r] :
                running_activations[r][c] >= 0)
    /\ [][ /\ DOMAIN running_activations' = DOMAIN running_activations
           /\ \A r \in DOMAIN running_activations :
                /\ DOMAIN running_activations'[r] = DOMAIN running_activations[r]
                /\ \A c \in DOMAIN running_activations[r] :
                      running_activations'[r][c] >= running_activations[r][c]
         ]_vars

\* A counter has been raised by accumulate_metrics and the layer has since
\* been selected on or pruned.
C9_Witness ==
    /\ op \in {"select_representatives", "prune_weights", "update_weights"}
    /\ outcome = "ok"
    /\ \E r \in DOMAIN running_activations :
          \E c \in DOMAIN running_activations[r] : running_activations[r][c] > 0

\* C10: when the enumerated buckets are pairwise disjoint sets of row indices,
\* the non-sentinel indices select_representatives returns are pairwise
\* distinct row indices.
C10_RepresentativesDistinctInRange ==
    LET tables == lsh.tables
        reps == representative_indices
        disjoint ==
            /\ \A i \in 1 .. Len(tables) : Members(tables[i]) \subseteq 0 .. Rows(weight) - 1
            /\ \A i \in 1 .. Len(tables) : Cardinality(Members(tables[i])) = Len(tables[i])
            /\ \A i, j \in 1 .. Len(tables) :
                  i # j => Members(tables[i]) \cap Members(tables[j]) = {}
    IN  (Selected /\ disjoint) =>
            /\ \A i \in 1 .. Len(reps) :
                  reps[i] # -1 => reps[i] \in 0 .. Rows(weight) - 1
            /\ \A i, j \in 1 .. Len(reps) :
                  (i # j /\ reps[i] # -1) => reps[i] # reps[j]

====
